---- MODULE Spec2Model ----
(***************************************************************************)
(* Model of strawberry.flask.views.GraphQLView.dispatch_request: the       *)
(* Flask view that turns one HTTP request into one GraphQL execution and   *)
(* one HTTP response.                                                      *)
(*                                                                         *)
(* The view's collaborators that live outside strawberry/flask/views.py    *)
(* (parse_request_data, parse_query_params, replace_placeholders_with_     *)
(* files, should_render_graphiql, OperationType.from_http, process_result, *)
(* the schema's execute_sync) are modelled from the specification; the     *)
(* Python standard library's json.loads / json.dumps are modelled by what  *)
(* CPython does.                                                           *)
(***************************************************************************)
EXTENDS Naturals, Sequences, FiniteSets, TLC

VARIABLES
    view,           \* the GraphQLView's attributes set by __init__
    client,         \* JSON configuration the host asked for (json_encoder, json_dumps_params)
    request,        \* flask.request: the request being served
    pc,             \* "idle" | "received" | "done"
    response,       \* the Response dispatch_request returned, or NoResponse
    raised,         \* the exception that left dispatch_request, or "none"
    executorCalls,  \* the calls made to schema.execute_sync for this request
    graphiqlCalls,  \* the number of calls made to should_render_graphiql
    dataSource      \* where `data` came from: "none" | "body" | "form" | "args"

vars == <<view, client, request, pc, response, raised, executorCalls,
          graphiqlCalls, dataSource>>

-----------------------------------------------------------------------------
(* JSON values: an ordered tree.  Every node has the same three fields so  *)
(* that any two nodes can be compared.                                     *)

Leaf(t, s) == [t |-> t, s |-> s, kids |-> <<>>]
Null == Leaf("null", "")
Str(s) == Leaf("str", s)
FileHandle(key) == Leaf("file", key)
Absent == Leaf("absent", "")
KV(k, v) == [k |-> k, v |-> v]
Obj(pairs) == [t |-> "obj", s |-> "", kids |-> pairs]
List(items) == [t |-> "list", s |-> "", kids |-> [i \in 1..Len(items) |-> KV("", items[i])]]

\* Python's `key in d` for a dict d.
HasField(node, key) ==
    /\ node.t = "obj"
    /\ \E i \in 1..Len(node.kids) : node.kids[i].k = key

\* Python's d[key] / d.get(key) for a dict d: Absent when the key is missing.
Field(node, key) ==
    IF HasField(node, key)
    THEN node.kids[CHOOSE i \in 1..Len(node.kids) : node.kids[i].k = key].v
    ELSE Absent

-----------------------------------------------------------------------------
(* The texts a request can carry, as Python would hold them.               *)

Q_HELLO == "{ hello }"
Q_MUTATION == "mutation { hi }"
Q_SUBSCRIPTION == "subscription { tick }"
Q_UPLOAD == "mutation($f: Upload!){ upload(file:$f) }"

B_EMPTY == ""
B_TRUNCATED == "{\"query\": "
B_BADBYTES == "\\xff"
J_EMPTYOBJ == "{}"
J_LIST == "[]"
J_NOQUERY == "{\"variables\": {\"a\": \"1\"}}"
J_EMPTYQUERY == "{\"query\": \"\"}"
J_QUERY == "{\"query\": \"{ hello }\"}"
J_MUTATION == "{\"query\": \"mutation { hi }\"}"
J_SUBSCRIPTION == "{\"query\": \"subscription { tick }\"}"
J_FULL == "{\"query\": \"{ hello }\", \"variables\": {\"a\": \"1\"}, \"operationName\": \"Op\"}"
J_VARS == "{\"a\": \"1\"}"

OP_UPLOAD == "{\"query\": \"mutation($f: Upload!){ upload(file:$f) }\", \"variables\": {\"f\": null}}"
OP_LIST == "{\"query\": \"mutation($f: Upload!){ upload(file:$f) }\", \"variables\": {\"files\": [null]}}"
OP_BATCH == "[{\"query\": \"mutation($f: Upload!){ upload(file:$f) }\", \"variables\": {\"f\": null}}]"

MAP_F == "{\"0\": [\"variables.f\"]}"
MAP_LIST == "{\"0\": [\"variables.files.0\"]}"
MAP_BATCH == "{\"0\": [\"0.variables.f\"]}"
MAP_TWO == "{\"0\": [\"variables.f\"], \"1\": [\"variables.f\"]}"
MAP_NOFIELD == "{\"0\": [\"variables.g.x\"]}"
MAP_RANGE == "{\"0\": [\"variables.files.1.x\"]}"
MAP_SCALAR == "{\"0\": [\"query.x\"]}"
MAP_NULL == "{\"0\": [\"variables.f.x\"]}"

VarsDoc == Obj(<<KV("a", Str("1"))>>)
UploadDoc == Obj(<<KV("query", Str(Q_UPLOAD)), KV("variables", Obj(<<KV("f", Null)>>))>>)
MapDoc(path) == Obj(<<KV("0", List(<<Str(path)>>))>>)

\* The value json.loads gives for each text that is valid JSON.
JsonValue(text) ==
    CASE text = J_EMPTYOBJ -> Obj(<<>>)
      [] text = J_LIST -> List(<<>>)
      [] text = J_NOQUERY -> Obj(<<KV("variables", VarsDoc)>>)
      [] text = J_EMPTYQUERY -> Obj(<<KV("query", Str(""))>>)
      [] text = J_QUERY -> Obj(<<KV("query", Str(Q_HELLO))>>)
      [] text = J_MUTATION -> Obj(<<KV("query", Str(Q_MUTATION))>>)
      [] text = J_SUBSCRIPTION -> Obj(<<KV("query", Str(Q_SUBSCRIPTION))>>)
      [] text = J_FULL -> Obj(<<KV("query", Str(Q_HELLO)), KV("variables", VarsDoc),
                                KV("operationName", Str("Op"))>>)
      [] text = J_VARS -> VarsDoc
      [] text = OP_UPLOAD -> UploadDoc
      [] text = OP_LIST -> Obj(<<KV("query", Str(Q_UPLOAD)),
                                 KV("variables", Obj(<<KV("files", List(<<Null>>))>>))>>)
      [] text = OP_BATCH -> List(<<UploadDoc>>)
      [] text = MAP_F -> MapDoc("variables.f")
      [] text = MAP_LIST -> MapDoc("variables.files.0")
      [] text = MAP_BATCH -> MapDoc("0.variables.f")
      [] text = MAP_TWO -> Obj(<<KV("0", List(<<Str("variables.f")>>)),
                                 KV("1", List(<<Str("variables.f")>>))>>)
      [] text = MAP_NOFIELD -> MapDoc("variables.g.x")
      [] text = MAP_RANGE -> MapDoc("variables.files.1.x")
      [] text = MAP_SCALAR -> MapDoc("query.x")
      [] text = MAP_NULL -> MapDoc("variables.f.x")

ValidJson == {J_EMPTYOBJ, J_LIST, J_NOQUERY, J_EMPTYQUERY, J_QUERY, J_MUTATION,
              J_SUBSCRIPTION, J_FULL, J_VARS, OP_UPLOAD, OP_LIST, OP_BATCH,
              MAP_F, MAP_LIST, MAP_BATCH, MAP_TWO, MAP_NOFIELD, MAP_RANGE,
              MAP_SCALAR, MAP_NULL}

\* Byte strings that are not text in any encoding json.loads detects.
Undecodable == {B_BADBYTES}

\* The outcome of a call that may raise: err = "none" and the value, or the
\* exception's class.
Returned(v) == [err |-> "none", val |-> v]
Raised(e) == [err |-> e, val |-> Absent]

\* json.loads(s): a bytes argument is decoded first, which raises
\* UnicodeDecodeError (a ValueError, not a JSONDecodeError); text that is not
\* JSON, the empty text included, raises json.JSONDecodeError.
json_loads(s) ==
    IF s \in Undecodable THEN Raised("UnicodeDecodeError")
    ELSE IF s \in ValidJson THEN Returned(JsonValue(s))
    ELSE Raised("JSONDecodeError")

-----------------------------------------------------------------------------
(* strawberry.file_uploads.utils.replace_placeholders_with_files           *)

\* path.split(".") for the paths the file maps above hold.
SplitPath(path) ==
    CASE path = "variables.f" -> <<"variables", "f">>
      [] path = "variables.files.0" -> <<"variables", "files", "0">>
      [] path = "0.variables.f" -> <<"0", "variables", "f">>
      [] path = "variables.g.x" -> <<"variables", "g", "x">>
      [] path = "variables.files.1.x" -> <<"variables", "files", "1", "x">>
      [] path = "query.x" -> <<"query", "x">>
      [] path = "variables.f.x" -> <<"variables", "f", "x">>

\* A segment that names a list index, and the position it names (lists are
\* numbered from 0 in a path and from 1 here).
IsIndex(seg) == seg \in {"0", "1"}
IndexOf(seg) == IF seg = "0" THEN 1 ELSE 2

\* The segment names something that exists in the node: a field of an object
\* or an index within a list.  Scalars, null and file handles hold nothing.
HasKey(node, seg) ==
    \/ HasField(node, seg)
    \/ node.t = "list" /\ IsIndex(seg) /\ IndexOf(seg) <= Len(node.kids)

PosOf(node, seg) ==
    IF node.t = "list" THEN IndexOf(seg)
    ELSE CHOOSE i \in 1..Len(node.kids) : node.kids[i].k = seg

Child(node, seg) == node.kids[PosOf(node, seg)].v
WithChild(node, seg, v) == [node EXCEPT !.kids[PosOf(node, seg)].v = v]

\* Overwrite the value at the path with the file handle; a segment that
\* resolves to nothing fails with the lookup error a missing file gives.
RECURSIVE ReplaceAt(_, _, _)
ReplaceAt(node, segs, file) ==
    IF ~HasKey(node, Head(segs)) THEN Raised("KeyError")
    ELSE IF Len(segs) = 1 THEN Returned(WithChild(node, Head(segs), file))
    ELSE LET sub == ReplaceAt(Child(node, Head(segs)), Tail(segs), file)
         IN  IF sub.err # "none" THEN sub
             ELSE Returned(WithChild(node, Head(segs), sub.val))

\* The paths of one entry of the map, from the i-th on.
RECURSIVE ReplacePaths(_, _, _, _)
ReplacePaths(operations, paths, i, file) ==
    IF i > Len(paths) THEN Returned(operations)
    ELSE LET r == ReplaceAt(operations, SplitPath(paths[i].v.s), file)
         IN  IF r.err # "none" THEN r
             ELSE ReplacePaths(r.val, paths, i + 1, file)

\* The entries of the map, from the i-th on: the file is looked up first.
RECURSIVE ReplaceEntries(_, _, _, _)
ReplaceEntries(operations, entries, i, files) ==
    IF i > Len(entries) THEN Returned(operations)
    ELSE IF entries[i].k \notin files THEN Raised("KeyError")
    ELSE LET r == ReplacePaths(operations, entries[i].v.kids, 1,
                               FileHandle(entries[i].k))
         IN  IF r.err # "none" THEN r
             ELSE ReplaceEntries(r.val, entries, i + 1, files)

replace_placeholders_with_files(operations, files_map, files) ==
    ReplaceEntries(operations, files_map.kids, 1, files)

-----------------------------------------------------------------------------
(* strawberry.http: parse_query_params, parse_request_data, process_result *)

\* MultiDict.get(name, default) / `name in params` on an ordered list of fields.
HasParam(params, name) == \E i \in 1..Len(params) : params[i].k = name
GetParam(params, name, default) ==
    IF HasParam(params, name)
    THEN params[CHOOSE i \in 1..Len(params) : params[i].k = name].v
    ELSE default

\* query and operationName are passed on as they are; variables, when
\* present, is decoded as JSON.
parse_query_params(params) ==
    LET decoded == json_loads(GetParam(params, "variables", J_EMPTYOBJ))
    IN  IF HasParam(params, "variables") /\ decoded.err # "none" THEN decoded
        ELSE Returned(Obj([i \in 1..Len(params) |->
                 KV(params[i].k, IF params[i].k = "variables" THEN decoded.val
                                 ELSE Str(params[i].v))]))

\* A payload has a query when it is an object whose query is a non-empty text.
HasQuery(data) == HasField(data, "query") /\ Field(data, "query").s # ""

RequestData(data) ==
    [query |-> Field(data, "query").s,
     variables |-> Field(data, "variables"),
     operation_name |-> Field(data, "operationName")]

parse_request_data(data) ==
    IF HasQuery(data) THEN Returned(RequestData(data))
    ELSE Raised("MissingQueryError")

\* The wire shape of a result: data, errors, extensions, absent ones left out.
Present(pairs) == SelectSeq(pairs, LAMBDA p : p.v # Absent)
process_result(result) ==
    Obj(Present(<<KV("data", result.data), KV("errors", result.errors),
                  KV("extensions", result.extensions)>>))

-----------------------------------------------------------------------------
(* json.dumps: the text as the sequence of its tokens.                     *)

DefaultSeparators == [item |-> ", ", key |-> ": "]
CustomSeparators == [item |-> ",", key |-> "-> "]

RECURSIVE Dumps(_, _)
RECURSIVE DumpKids(_, _, _)
DumpKids(node, i, seps) ==
    IF i > Len(node.kids) THEN <<>>
    ELSE (IF i > 1 THEN <<seps.item>> ELSE <<>>)
         \o (IF node.t = "obj" THEN <<"\"" \o node.kids[i].k \o "\"", seps.key>> ELSE <<>>)
         \o Dumps(node.kids[i].v, seps)
         \o DumpKids(node, i + 1, seps)
Dumps(node, seps) ==
    CASE node.t = "obj" -> <<"{">> \o DumpKids(node, 1, seps) \o <<"}">>
      [] node.t = "list" -> <<"[">> \o DumpKids(node, 1, seps) \o <<"]">>
      [] node.t = "str" -> <<"\"" \o node.s \o "\"">>
      [] OTHER -> <<"null">>

Reverse(seq) == [i \in 1..Len(seq) |-> seq[Len(seq) + 1 - i]]

\* What an encoder configured on the client produces
\* (tests/http/test_json_encoder.py: ReversedJSONEncoder, separators).
Encode(cfg, doc) ==
    IF cfg.json_encoder = "ReversedJSONEncoder"
    THEN Reverse(Dumps(doc, cfg.separators))
    ELSE Dumps(doc, cfg.separators)

-----------------------------------------------------------------------------
(* The schema: OperationType.from_http and execute_sync                    *)

OperationTypes == {"QUERY", "MUTATION", "SUBSCRIPTION"}

from_http(method) ==
    IF method = "GET" THEN {"QUERY"} ELSE OperationTypes

\* The operation type of a document, which the executor finds by parsing it.
OperationTypeOf(query) ==
    CASE query = Q_HELLO -> "QUERY"
      [] query = Q_SUBSCRIPTION -> "SUBSCRIPTION"
      [] OTHER -> "MUTATION"

\* The results an execution can give: data only, data with errors, errors only.
HelloData == Obj(<<KV("hello", Str("Hello world"))>>)
Errors == List(<<Obj(<<KV("message", Str("boom"))>>)>>)
ExecutionResult(data, errors) == [data |-> data, errors |-> errors, extensions |-> Absent]
ExecutionResults ==
    {ExecutionResult(HelloData, Absent), ExecutionResult(HelloData, Errors),
     ExecutionResult(Absent, Errors)}

\* schema.execute_sync: raises when the document's operation type is not
\* allowed, and otherwise returns the result of the execution.
execute_sync(query, allowed_operation_types, result) ==
    IF OperationTypeOf(query) \notin allowed_operation_types
    THEN Raised("InvalidOperationTypeError")
    ELSE Returned(result)

\* InvalidOperationTypeError.as_http_error_reason(method)
Plural(operation_type) ==
    CASE operation_type = "QUERY" -> "queries"
      [] operation_type = "MUTATION" -> "mutations"
      [] OTHER -> "subscriptions"
as_http_error_reason(query, method) ==
    Plural(OperationTypeOf(query)) \o " are not allowed when using " \o method

\* strawberry.flask.graphiql.should_render_graphiql
should_render_graphiql(graphiql, req) == graphiql

-----------------------------------------------------------------------------
(* GraphQLView                                                             *)

Response(status, content_type, body) ==
    [status |-> status, content_type |-> content_type, body |-> body]
\* flask.Response(text, status): Flask's default mimetype.
TextResponse(text, status) == Response(status, "text/html; charset=utf-8", <<text>>)
NoResponse == Response(0, "", <<>>)

MSG_METHOD == "Unsupported method, must be of request type POST or GET"
MSG_JSON == "Unable to parse request body as JSON"
MSG_FILES == "File(s) missing in form data"
MSG_NOT_FOUND == "Not found"
MSG_MEDIA == "Unsupported Media Type"
MSG_NO_QUERY == "No GraphQL query found in the request"
GRAPHIQL_PAGE == "<!DOCTYPE html> GraphiQL"

\* How a step of dispatch_request ends: it leaves `data` for the next step,
\* returns a Response, or lets an exception out.
Continue(data) == [tag |-> "continue", data |-> data, resp |-> NoResponse, exc |-> "none"]
Return(resp) == [tag |-> "return", data |-> Absent, resp |-> resp, exc |-> "none"]
Raise(exc) == [tag |-> "raise", data |-> Absent, resp |-> NoResponse, exc |-> exc]

\* try: r  except exc_class: return resp
TryExcept(r, exc_class, resp) ==
    IF r.err = "none" THEN Continue(r.val)
    ELSE IF r.err = exc_class THEN Return(resp)
    ELSE Raise(r.err)

ContainsJson(content_type) ==
    content_type \in {"application/json", "multipart/form-data; type=application/json"}
StartsWithMultipart(content_type) ==
    content_type \in {"multipart/form-data; boundary=b",
                      "multipart/form-data; type=application/json"}

LoadJsonBody(data) ==
    TryExcept(json_loads(data), "JSONDecodeError", Response(400, "text/html; charset=utf-8", <<MSG_JSON>>))

\* The same without the try: the lookup failure leaves dispatch_request.
ResolveUploads_Uncaught(operations, files_map, files) ==
    TryExcept(replace_placeholders_with_files(operations, files_map, files),
              "none", NoResponse)

\* The same answering with the message of the JSON handlers next to it.
ResolveUploads_WrongMessage(operations, files_map, files) ==
    TryExcept(replace_placeholders_with_files(operations, files_map, files),
              "KeyError", Response(400, "text/html; charset=utf-8", <<MSG_JSON>>))

ResolveUploads(operations, files_map, files) ==
    TryExcept(replace_placeholders_with_files(operations, files_map, files),
              "KeyError", Response(400, "text/html; charset=utf-8", <<MSG_FILES>>))

LoadMultipart(form, files) ==
    LET operations == json_loads(GetParam(form, "operations", "{}"))
        files_map == json_loads(GetParam(form, "map", "{}"))
        malformed == Response(400, "text/html; charset=utf-8", <<MSG_JSON>>)
    IN  IF operations.err # "none" THEN TryExcept(operations, "JSONDecodeError", malformed)
        ELSE IF files_map.err # "none" THEN TryExcept(files_map, "JSONDecodeError", malformed)
        ELSE ResolveUploads(operations.val, files_map.val, files)

\* The same without the try: the decoding failure leaves dispatch_request.
LoadQueryParams_Uncaught(args) ==
    TryExcept(parse_query_params(args), "none", NoResponse)

LoadQueryParams(args) ==
    TryExcept(parse_query_params(args), "JSONDecodeError",
              Response(400, "text/html; charset=utf-8", <<MSG_JSON>>))

\* The same with the page served whatever the predicate says.
GraphiqlOrNotFound_AlwaysPage(graphiql, req) ==
    Return(TextResponse(GRAPHIQL_PAGE, 200))

\* render_template returns the page's text, which Flask sends with status 200.
GraphiqlOrNotFound(graphiql, req) ==
    IF should_render_graphiql(graphiql, req)
    THEN Return(TextResponse(GRAPHIQL_PAGE, 200))
    ELSE Return(TextResponse(MSG_NOT_FOUND, 404))

\* The same with the payload taken as it is, query or no query.
ExtractRequestData_Unchecked(data) == Continue(RequestData(data))

ExtractRequestData(data) ==
    TryExcept(parse_request_data(data), "MissingQueryError", TextResponse(MSG_NO_QUERY, 400))

\* The same without lines 104-105: allow_queries_via_get is not looked at.
AllowedOperationTypes_NoFlag(method, allow_queries_via_get) == from_http(method)

AllowedOperationTypes(method, allow_queries_via_get) ==
    IF ~allow_queries_via_get /\ method = "GET"
    THEN from_http(method) \ {"QUERY"}
    ELSE from_http(method)

\* The same with status 400 for a result that has errors and no data.
DeliverResult_400OnErrors(result) ==
    Response(IF result.data = Absent /\ result.errors # Absent THEN 400 ELSE 200,
             "application/json", Dumps(process_result(result), DefaultSeparators))

DeliverResult(result) ==
    Response(200, "application/json", Dumps(process_result(result), DefaultSeparators))

\* The call dispatch_request makes to the executor.
ExecutorCall(request_data, allowed, executed) ==
    [query |-> request_data.query, variables |-> request_data.variables,
     operation_name |-> request_data.operation_name, allowed |-> allowed,
     executed |-> executed]

\* What dispatch_request did: the Response it returned or the exception that
\* left it, and the calls it made to the executor.
Outcome(resp, exc, calls) == [resp |-> resp, exc |-> exc, calls |-> calls]

\* Lines 94-122: from `data` to the Response.
Execute(v, method, data, result) ==
    LET extracted == ExtractRequestData(data)
        request_data == extracted.data
        allowed == AllowedOperationTypes(method, v.allow_queries_via_get)
        executed == execute_sync(request_data.query, allowed, result)
    IN  IF extracted.tag # "continue" THEN Outcome(extracted.resp, extracted.exc, <<>>)
        ELSE IF executed.err # "none"
        THEN Outcome(TextResponse(as_http_error_reason(request_data.query, method), 400),
                     "none", <<ExecutorCall(request_data, allowed, executed)>>)
        ELSE Outcome(DeliverResult(executed.val), "none",
                     <<ExecutorCall(request_data, allowed, executed)>>)

\* A step that produces `data`, then lines 94-122 if it did.
ThenExecute(v, method, step, result) ==
    IF step.tag = "continue" THEN Execute(v, method, step.data, result)
    ELSE Outcome(step.resp, step.exc, <<>>)

-----------------------------------------------------------------------------
(* The requests a host can hand to the view.                               *)

Methods == {"GET", "POST", "HEAD"}
PlainContentTypes == {"", "application/json", "text/plain"}
MultipartContentTypes == {"multipart/form-data; boundary=b",
                          "multipart/form-data; type=application/json"}

Bodies == {B_EMPTY, B_TRUNCATED, B_BADBYTES, J_EMPTYOBJ, J_LIST, J_NOQUERY,
           J_EMPTYQUERY, J_QUERY, J_MUTATION, J_SUBSCRIPTION, J_FULL}

OperationsFields == {<<>>, <<KV("operations", B_TRUNCATED)>>, <<KV("operations", J_QUERY)>>,
                     <<KV("operations", OP_UPLOAD)>>, <<KV("operations", OP_LIST)>>,
                     <<KV("operations", OP_BATCH)>>}
MapFields == {<<>>, <<KV("map", B_TRUNCATED)>>} \cup
             {<<KV("map", m)>> : m \in {MAP_F, MAP_LIST, MAP_BATCH, MAP_TWO, MAP_NOFIELD,
                                        MAP_RANGE, MAP_SCALAR, MAP_NULL}}
Forms == {o \o m : o \in OperationsFields, m \in MapFields}
\* The sets of uploaded files: the first n field names, n up to MaxFiles.
MaxFiles == 2
FileName(i) == CASE i = 1 -> "0" [] i = 2 -> "1" [] i = 3 -> "2" [] OTHER -> "3"
FileSets == {{FileName(i) : i \in 1..n} : n \in 0..MaxFiles}

Args == {<<>>,
         <<KV("query", Q_HELLO)>>,
         <<KV("query", Q_MUTATION)>>,
         <<KV("query", Q_HELLO), KV("variables", J_VARS), KV("operationName", "Op")>>,
         <<KV("query", Q_HELLO), KV("variables", B_TRUNCATED)>>,
         <<KV("variables", J_VARS)>>}

\* The bytes of a multipart body: nothing when no part was sent, and
\* otherwise the parts between their boundaries, which is not JSON.
B_MULTIPART == "--b\r\nContent-Disposition: form-data"
MultipartBody(form, files) == IF form = <<>> /\ files = {} THEN B_EMPTY ELSE B_MULTIPART

Request(method, content_type, data, form, files, args) ==
    [method |-> method, content_type |-> content_type, data |-> data,
     form |-> form, files |-> files, args |-> args]
NoRequest == Request("", "", B_EMPTY, <<>>, {}, <<>>)

\* Only a form content type has its body parsed into form fields and files.
Requests ==
    {Request(m, ct, d, <<>>, {}, a) :
        m \in Methods, ct \in PlainContentTypes, d \in Bodies, a \in Args}
    \cup
    {Request(m, ct, MultipartBody(f, fs), f, fs, a) :
        m \in Methods, ct \in MultipartContentTypes, f \in Forms, fs \in FileSets, a \in Args}

\* GraphQLView.__init__ keeps graphiql and allow_queries_via_get.
Views == [graphiql : BOOLEAN, allow_queries_via_get : BOOLEAN]

\* The JSON configuration of tests/http/test_json_encoder.py.
Clients ==
    {[json_encoder |-> "JSONEncoder", separators |-> DefaultSeparators],
     [json_encoder |-> "ReversedJSONEncoder", separators |-> DefaultSeparators],
     [json_encoder |-> "JSONEncoder", separators |-> CustomSeparators]}

-----------------------------------------------------------------------------
(* The state machine: a request arrives, dispatch_request serves it, the   *)
(* host sends the response and drops the request.                          *)

Init ==
    /\ view \in Views
    /\ client \in Clients
    /\ request = NoRequest
    /\ pc = "idle"
    /\ response = NoResponse
    /\ raised = "none"
    /\ executorCalls = <<>>
    /\ graphiqlCalls = 0
    /\ dataSource = "none"

Receive ==
    /\ pc = "idle"
    /\ \E r \in Requests : request' = r
    /\ pc' = "received"
    /\ UNCHANGED <<view, client, response, raised, executorCalls, graphiqlCalls, dataSource>>

\* dispatch_request ends with the outcome o.
Finish(o, source, consulted) ==
    /\ pc' = "done"
    /\ response' = o.resp
    /\ raised' = o.exc
    /\ executorCalls' = o.calls
    /\ graphiqlCalls' = consulted
    /\ dataSource' = source
    /\ UNCHANGED <<view, client, request>>

DispatchUnsupportedMethod ==
    /\ pc = "received"
    /\ request.method \notin {"POST", "GET"}
    /\ Finish(Outcome(TextResponse(MSG_METHOD, 405), "none", <<>>), "none", 0)

DispatchJson ==
    /\ pc = "received"
    /\ request.method \in {"POST", "GET"}
    /\ ContainsJson(request.content_type)
    /\ \E result \in ExecutionResults :
          Finish(ThenExecute(view, request.method, LoadJsonBody(request.data), result),
                 "body", 0)

DispatchMultipart ==
    /\ pc = "received"
    /\ request.method \in {"POST", "GET"}
    /\ ~ContainsJson(request.content_type)
    /\ StartsWithMultipart(request.content_type)
    /\ \E result \in ExecutionResults :
          Finish(ThenExecute(view, request.method,
                             LoadMultipart(request.form, request.files), result),
                 "form", 0)

DispatchQueryParams ==
    /\ pc = "received"
    /\ request.method = "GET"
    /\ ~ContainsJson(request.content_type)
    /\ ~StartsWithMultipart(request.content_type)
    /\ request.args # <<>>
    /\ \E result \in ExecutionResults :
          Finish(ThenExecute(view, request.method, LoadQueryParams(request.args), result),
                 "args", 0)

DispatchGraphiql ==
    /\ pc = "received"
    /\ request.method = "GET"
    /\ ~ContainsJson(request.content_type)
    /\ ~StartsWithMultipart(request.content_type)
    /\ request.args = <<>>
    /\ LET step == GraphiqlOrNotFound(view.graphiql, request)
       IN  Finish(Outcome(step.resp, step.exc, <<>>), "none", 1)

DispatchUnsupportedMedia ==
    /\ pc = "received"
    /\ request.method = "POST"
    /\ ~ContainsJson(request.content_type)
    /\ ~StartsWithMultipart(request.content_type)
    /\ Finish(Outcome(TextResponse(MSG_MEDIA, 415), "none", <<>>), "none", 0)

\* The response is sent (or the exception handled by Flask) and nothing of
\* the request is kept.
Complete ==
    /\ pc = "done"
    /\ pc' = "idle"
    /\ request' = NoRequest
    /\ response' = NoResponse
    /\ raised' = "none"
    /\ executorCalls' = <<>>
    /\ graphiqlCalls' = 0
    /\ dataSource' = "none"
    /\ UNCHANGED <<view, client>>

Next ==
    \/ Receive
    \/ DispatchUnsupportedMethod
    \/ DispatchJson
    \/ DispatchMultipart
    \/ DispatchQueryParams
    \/ DispatchGraphiql
    \/ DispatchUnsupportedMedia
    \/ Complete

Spec == Init /\ [][Next]_vars

-----------------------------------------------------------------------------
(* What the properties below speak of.                                     *)

Served == pc = "done"
GetOrPost == request.method \in {"GET", "POST"}
ExecutorInvoked == executorCalls # <<>>
TheCall == executorCalls[1]
Message(status, text) == response.status = status /\ response.body = <<text>>

\* The form fields as JSON, and whether the map names a file that was not uploaded.
OperationsField == json_loads(GetParam(request.form, "operations", "{}"))
MapField == json_loads(GetParam(request.form, "map", "{}"))
MapNamesMissingFile ==
    /\ MapField.err = "none"
    /\ \E i \in 1..Len(MapField.val.kids) : MapField.val.kids[i].k \notin request.files

\* The container a path writes into exists: every segment but the last
\* resolves, and what they lead to is an object or a list.
RECURSIVE ResolvesContainer(_, _)
ResolvesContainer(node, segs) ==
    IF Len(segs) = 1 THEN node.t \in {"obj", "list"}
    ELSE HasKey(node, Head(segs)) /\ ResolvesContainer(Child(node, Head(segs)), Tail(segs))

MapHasUnresolvedPath ==
    /\ OperationsField.err = "none"
    /\ MapField.err = "none"
    /\ \E i \in 1..Len(MapField.val.kids) :
          \E j \in 1..Len(MapField.val.kids[i].v.kids) :
             ~ResolvesContainer(OperationsField.val,
                                SplitPath(MapField.val.kids[i].v.kids[j].v.s))

NoBody == request.data = B_EMPTY /\ request.form = <<>> /\ request.files = {}
ExploratoryPage == Response(200, "text/html; charset=utf-8", <<GRAPHIQL_PAGE>>)

\* The payload the view parsed, by where it took it from.
ParsedPayload ==
    CASE dataSource = "body" -> json_loads(request.data)
      [] dataSource = "args" -> parse_query_params(request.args)
      [] dataSource = "form" /\ OperationsField.err = "none" /\ MapField.err = "none" ->
            replace_placeholders_with_files(OperationsField.val, MapField.val, request.files)
      [] OTHER -> Raised("nothing parsed")

\* The request was normalized: a payload was parsed and it has a query.
Normalized == ParsedPayload.err = "none" /\ HasQuery(ParsedPayload.val)

-----------------------------------------------------------------------------
\* C1: a GET or POST request whose Content-Type contains application/json and
\* whose body is not valid JSON (empty and undecodable bytes included) is
\* answered with status 400 and the executor is not invoked.
C1_InvalidJsonBodyIs400 ==
    (Served /\ GetOrPost /\ ContainsJson(request.content_type)
            /\ request.data \notin ValidJson)
        => (response.status = 400 /\ ~ExecutorInvoked)

\* C2 as stated: every multipart/form-data request whose map names a key that
\* is absent from the uploaded files is answered with status 400 and the
\* message "File(s) missing in form data", the executor not invoked.
C2_Original ==
    (Served /\ StartsWithMultipart(request.content_type) /\ MapNamesMissingFile)
        => (Message(400, MSG_FILES) /\ ~ExecutorInvoked)

\* C2 amended: the same for a GET or POST request whose Content-Type starts
\* with multipart/form-data without containing application/json and whose
\* operations field is valid JSON.
C2_MissingFileIs400 ==
    (Served /\ GetOrPost /\ StartsWithMultipart(request.content_type)
            /\ ~ContainsJson(request.content_type)
            /\ OperationsField.err = "none" /\ MapNamesMissingFile)
        => (Message(400, MSG_FILES) /\ ~ExecutorInvoked)

C2_Witness ==
    /\ Served /\ request.method = "POST"
    /\ request.form = <<KV("operations", OP_UPLOAD), KV("map", MAP_TWO)>>
    /\ request.files = {"0"}
    /\ Message(400, MSG_FILES)

\* The allowed set the gate prescribes for the request.
C3_ExpectedAllowed ==
    IF request.method = "POST" THEN {"QUERY", "MUTATION", "SUBSCRIPTION"}
    ELSE IF view.allow_queries_via_get THEN {"QUERY"} ELSE {}

\* C3: every normalized request reaches the executor, and the allowed set it
\* is given is all three operation types for POST, {QUERY} for GET with
\* allow_queries_via_get and the empty set for GET without it; the response
\* is the 200 result iff the document's operation type is in that set, and
\* otherwise status 400 with the reason for the method.
C3_PermissionGate ==
    (Served /\ Normalized) =>
        /\ ExecutorInvoked
        /\ TheCall.allowed = C3_ExpectedAllowed
        /\ (response.status = 200 <=> OperationTypeOf(TheCall.query) \in C3_ExpectedAllowed)
        /\ (OperationTypeOf(TheCall.query) \notin C3_ExpectedAllowed =>
               Message(400, as_http_error_reason(TheCall.query, request.method)))

C3_Witness ==
    /\ Served /\ request.method = "GET" /\ ~view.allow_queries_via_get
    /\ ExecutorInvoked /\ TheCall.query = Q_HELLO /\ TheCall.allowed = {}
    /\ Message(400, "queries are not allowed when using GET")

\* C4 as stated: every GET request with no query parameters and no body is
\* answered by the exploratory-page predicate alone (the page with status 200
\* when it holds, 404 otherwise), the executor is not invoked, and the
\* predicate is consulted on no POST and on no GET with query parameters.
C4_Original ==
    /\ (Served /\ request.method = "GET" /\ request.args = <<>> /\ NoBody) =>
          /\ response = (IF should_render_graphiql(view.graphiql, request)
                         THEN ExploratoryPage ELSE TextResponse(MSG_NOT_FOUND, 404))
          /\ ~ExecutorInvoked
    /\ graphiqlCalls > 0 => (request.method = "GET" /\ request.args = <<>>)

\* C4 amended: the same for the GET requests whose Content-Type neither
\* contains application/json nor starts with multipart/form-data.
C4_BareGetIsPageOr404 ==
    /\ (Served /\ request.method = "GET" /\ request.args = <<>> /\ NoBody
               /\ ~ContainsJson(request.content_type)
               /\ ~StartsWithMultipart(request.content_type)) =>
          /\ response = (IF should_render_graphiql(view.graphiql, request)
                         THEN ExploratoryPage ELSE TextResponse(MSG_NOT_FOUND, 404))
          /\ ~ExecutorInvoked
          /\ graphiqlCalls = 1
    /\ graphiqlCalls > 0 => (request.method = "GET" /\ request.args = <<>>)

C4_Witness ==
    /\ Served /\ request.method = "GET" /\ request.args = <<>> /\ NoBody
    /\ request.content_type = "" /\ view.graphiql
    /\ response = ExploratoryPage /\ graphiqlCalls = 1

\* What the Query-Param Decoder gives the executor for the query parameters.
C5_DecodedCall ==
    /\ TheCall.query = GetParam(request.args, "query", "")
    /\ TheCall.variables = (IF HasParam(request.args, "variables")
                            THEN JsonValue(GetParam(request.args, "variables", ""))
                            ELSE Absent)
    /\ TheCall.operation_name = (IF HasParam(request.args, "operationName")
                                 THEN Str(GetParam(request.args, "operationName", ""))
                                 ELSE Absent)

C5_MalformedVariables ==
    /\ HasParam(request.args, "variables")
    /\ GetParam(request.args, "variables", "") \notin ValidJson

C5_FromQueryParams ==
    /\ dataSource = "args"
    /\ C5_MalformedVariables => (Message(400, MSG_JSON) /\ ~ExecutorInvoked)
    /\ ~C5_MalformedVariables =>
          IF GetParam(request.args, "query", "") = ""
          THEN Message(400, MSG_NO_QUERY) /\ ~ExecutorInvoked
          ELSE ExecutorInvoked /\ C5_DecodedCall
    /\ response.status \notin {404, 415}
    /\ response # ExploratoryPage
    /\ graphiqlCalls = 0

\* C5 as stated: every GET request with query parameters has its payload
\* decoded from them (query, JSON-decoded variables, operationName), malformed
\* variables give status 400, and it is never normalized from the body nor
\* answered with the exploratory page, 404 or 415.
C5_Original ==
    (Served /\ request.method = "GET" /\ request.args # <<>>) => C5_FromQueryParams

\* C5 amended: the same for the GET requests whose Content-Type neither
\* contains application/json nor starts with multipart/form-data.
C5_GetWithParamsIsDecoded ==
    (Served /\ request.method = "GET" /\ request.args # <<>>
            /\ ~ContainsJson(request.content_type)
            /\ ~StartsWithMultipart(request.content_type)) => C5_FromQueryParams

C5_Witness ==
    /\ Served /\ request.method = "GET" /\ request.content_type = "text/plain"
    /\ request.args = <<KV("query", Q_HELLO), KV("variables", J_VARS), KV("operationName", "Op")>>
    /\ request.data = J_MUTATION
    /\ ExecutorInvoked /\ TheCall.query = Q_HELLO /\ TheCall.variables = VarsDoc
    /\ response.status = 200

C8_BodyUsesConfiguredEncoder ==
    (Served /\ ExecutorInvoked /\ TheCall.executed.err = "none") =>
        response.body = Encode(client, process_result(TheCall.executed.val))

\* C9: every request ends with exactly one Response and no exception leaves
\* dispatch_request; the executor is invoked at most once, only once the
\* method check, the parsing, the upload resolution and the query extraction
\* have succeeded, and after it only its own operation-type violation is
\* reported as a protocol error.
C9_OneResponseNoEscape ==
    Served =>
        /\ response # NoResponse
        /\ raised = "none"
        /\ Len(executorCalls) <= 1
        /\ ExecutorInvoked =>
              /\ GetOrPost
              /\ ParsedPayload.err = "none"
              /\ HasField(ParsedPayload.val, "query")
              /\ \/ response.status = 200
                 \/ TheCall.executed.err = "InvalidOperationTypeError" /\ response.status = 400

====
